---- MODULE Spec2Model ----
(***************************************************************************)
(* ExtraRank: the snapshot collection, persistence and retention           *)
(* subsystem (app/db.py, app/main.py, scripts/rotate_snapshots.py,         *)
(* scripts/daily_snapshot.py, app/routers.py).                             *)
(*                                                                         *)
(* The SQLite file is the variable store; every handler opens its own      *)
(* connection with get_conn.  Texts (timestamps, JSON documents) are       *)
(* sequences of one-character strings, so that formatting, text            *)
(* comparison and JSON encoding/decoding are computed, not assumed.        *)
(***************************************************************************)
EXTENDS Integers, Sequences, FiniteSets, TLC

VARIABLES store, clock, calls, resp, lastExec, written

vars == <<store, clock, calls, resp, lastExec, written>>

(***************************************************************************)
(* Bounds of the model.                                                    *)
(***************************************************************************)
\* ticks of the clock per second (the sub-second part of utcnow())
TicksPerSecond == 2
\* seconds per day
SecondsPerDay == 1
\* the day on which the clock starts
StartDay == 1
\* ticks the clock may advance after the start
MaxTicks == 2
\* snapshots written over the life of the store
MaxId == 2

TicksPerDay == TicksPerSecond * SecondsPerDay
StartClock == StartDay * TicksPerDay
MaxClock == StartClock + MaxTicks

(***************************************************************************)
(* Python None for TEXT-typed values, and the score values.                *)
(***************************************************************************)
None == "<None>"
NoScore == [t |-> "none"]
Num(n) == [t |-> "num", n |-> n]
NumText(n) == [t |-> "text", n |-> n]
BadText == [t |-> "text", n |-> -1]

(***************************************************************************)
(* Sequence helpers.                                                       *)
(***************************************************************************)
RECURSIVE SelectSeqBy(_, _)
\* [x for x in s if Keep(x)], with Keep given as the set of kept elements
SelectSeqBy(s, keep) ==
    IF s = <<>> THEN <<>>
    ELSE (IF Head(s) \in keep THEN <<Head(s)>> ELSE <<>>) \o SelectSeqBy(Tail(s), keep)

Range(s) == {s[i] : i \in 1..Len(s)}

Max(S) == CHOOSE m \in S : \A x \in S : x <= m

Min2(a, b) == IF a <= b THEN a ELSE b

(***************************************************************************)
(* datetime.isoformat() + "Z" and SQLite's text comparison.                *)
(***************************************************************************)
DigitChar == <<"0", "1", "2", "3", "4", "5", "6", "7", "8", "9">>
Digit(n) == DigitChar[n + 1]
Digits2(n) == <<Digit((n \div 10) % 10), Digit(n % 10)>>

\* ASCII codes of the characters a timestamp is made of
Ord(ch) ==
    CASE ch = "." -> 46
      [] ch = "0" -> 48 [] ch = "1" -> 49 [] ch = "2" -> 50 [] ch = "3" -> 51
      [] ch = "4" -> 52 [] ch = "5" -> 53 [] ch = "6" -> 54 [] ch = "7" -> 55
      [] ch = "8" -> 56 [] ch = "9" -> 57
      [] ch = "T" -> 84
      [] ch = "Z" -> 90

DayOf(t) == t \div TicksPerDay
SecondOf(t) == (t % TicksPerDay) \div TicksPerSecond
MicroOf(t) == t % TicksPerSecond

\* datetime.isoformat(): the fraction is omitted when microsecond == 0
IsoFormat(t) ==
    Digits2(DayOf(t)) \o <<"T">> \o Digits2(SecondOf(t))
        \o (IF MicroOf(t) = 0 THEN <<>> ELSE <<".", Digit(MicroOf(t))>>)

\* datetime.datetime.utcnow().isoformat() + "Z"
Timestamp(t) == IsoFormat(t) \o <<"Z">>

\* (utcnow() - timedelta(days=keep_days)).isoformat() + "Z"
Cutoff(now, keep_days) == Timestamp(now - keep_days * TicksPerDay)

RECURSIVE TextLess(_, _)
\* a < b for TEXT values under SQLite's BINARY collation (memcmp, then length)
TextLess(a, b) ==
    IF b = <<>> THEN FALSE
    ELSE IF a = <<>> THEN TRUE
    ELSE IF Ord(Head(a)) # Ord(Head(b)) THEN Ord(Head(a)) < Ord(Head(b))
    ELSE TextLess(Tail(a), Tail(b))

\* the instant a timestamp text denotes
InstantOf(text) == CHOOSE t \in 0..(MaxClock + TicksPerDay) : Timestamp(t) = text

(***************************************************************************)
(* JSON values and json.dumps / json.loads.                                *)
(* A value is null, a string, an array of values or an object (an ordered  *)
(* list of key/value members, as a Python dict keeps insertion order).     *)
(***************************************************************************)
JNull == [t |-> "null"]
JStr(s) == [t |-> "str", s |-> s]
JArr(items) == [t |-> "arr", items |-> items]
JObj(members) == [t |-> "obj", items |-> members]
Member(k, v) == [k |-> k, v |-> v]

NullText == <<"n", "u", "l", "l">>

RECURSIVE EscapeChars(_)
\* the body of a JSON string literal: the quote and the backslash are escaped
EscapeChars(s) ==
    IF s = <<>> THEN <<>>
    ELSE (IF Head(s) \in {"\"", "\\"} THEN <<"\\", Head(s)>> ELSE <<Head(s)>>)
            \o EscapeChars(Tail(s))

Quote(s) == <<"\"">> \o EscapeChars(s) \o <<"\"">>

RECURSIVE JsonDumps(_)
RECURSIVE DumpItems(_)
RECURSIVE DumpMembers(_)
\* the items of an array, separated by ", "
DumpItems(items) ==
    IF items = <<>> THEN <<>>
    ELSE JsonDumps(Head(items))
            \o (IF Len(items) > 1 THEN <<",", " ">> ELSE <<>>) \o DumpItems(Tail(items))

\* the members of an object, "key": value separated by ", "
DumpMembers(ms) ==
    IF ms = <<>> THEN <<>>
    ELSE Quote(Head(ms).k) \o <<":", " ">> \o JsonDumps(Head(ms).v)
            \o (IF Len(ms) > 1 THEN <<",", " ">> ELSE <<>>) \o DumpMembers(Tail(ms))

\* json.dumps(v, ensure_ascii=False)
JsonDumps(v) ==
    CASE v.t = "null" -> NullText
      [] v.t = "str" -> Quote(v.s)
      [] v.t = "arr" -> <<"[">> \o DumpItems(v.items) \o <<"]">>
      [] v.t = "obj" -> <<"{">> \o DumpMembers(v.items) \o <<"}">>

\* the result of a failed parse
ParseFail == [ok |-> FALSE, v |-> JNull, i |-> 0]
Parsed(v, i) == [ok |-> TRUE, v |-> v, i |-> i]

At(txt, i) == IF i >= 1 /\ i <= Len(txt) THEN txt[i] ELSE "<EOF>"

RECURSIVE SkipWs(_, _)
SkipWs(txt, i) == IF At(txt, i) = " " THEN SkipWs(txt, i + 1) ELSE i

RECURSIVE ScanString(_, _, _)
\* the characters of a string literal, from the position after its opening quote
ScanString(txt, i, acc) ==
    IF i > Len(txt) THEN ParseFail
    ELSE IF txt[i] = "\"" THEN Parsed(acc, i + 1)
    ELSE IF txt[i] = "\\"
        THEN IF At(txt, i + 1) \in {"\"", "\\"}
                THEN ScanString(txt, i + 2, Append(acc, txt[i + 1]))
                ELSE ParseFail
    ELSE ScanString(txt, i + 1, Append(acc, txt[i]))

\* d[k] = v on an ordered dict: a repeated key keeps its place and takes the new value
PutMember(ms, k, v) ==
    IF \E j \in 1..Len(ms) : ms[j].k = k
        THEN [j \in 1..Len(ms) |-> IF ms[j].k = k THEN Member(k, v) ELSE ms[j]]
        ELSE Append(ms, Member(k, v))

RECURSIVE ParseValue(_, _)
RECURSIVE ParseItems(_, _, _)
RECURSIVE ParseMembers(_, _, _)
\* the items of an array from position i (after "[" or ","), up to and including "]"
ParseItems(txt, i, acc) ==
    LET r == ParseValue(txt, i) IN
    IF ~r.ok THEN ParseFail
    ELSE LET j == SkipWs(txt, r.i) IN
         IF At(txt, j) = "," THEN ParseItems(txt, SkipWs(txt, j + 1), Append(acc, r.v))
         ELSE IF At(txt, j) = "]" THEN Parsed(JArr(Append(acc, r.v)), j + 1)
         ELSE ParseFail

\* the members of an object from position i (after "{" or ","), up to and including "}"
ParseMembers(txt, i, acc) ==
    IF At(txt, i) # "\"" THEN ParseFail
    ELSE LET k == ScanString(txt, i + 1, <<>>) IN
         IF ~k.ok THEN ParseFail
         ELSE LET c == SkipWs(txt, k.i) IN
              IF At(txt, c) # ":" THEN ParseFail
              ELSE LET r == ParseValue(txt, SkipWs(txt, c + 1)) IN
                   IF ~r.ok THEN ParseFail
                   ELSE LET j == SkipWs(txt, r.i)
                            ms == PutMember(acc, k.v, r.v) IN
                        IF At(txt, j) = "," THEN ParseMembers(txt, SkipWs(txt, j + 1), ms)
                        ELSE IF At(txt, j) = "}" THEN Parsed(JObj(ms), j + 1)
                        ELSE ParseFail

\* one JSON value starting at position i
ParseValue(txt, i) ==
    CASE At(txt, i) = "n" ->
            IF i + 3 <= Len(txt) /\ SubSeq(txt, i, i + 3) = NullText
                THEN Parsed(JNull, i + 4) ELSE ParseFail
      [] At(txt, i) = "\"" ->
            LET r == ScanString(txt, i + 1, <<>>) IN
            IF r.ok THEN Parsed(JStr(r.v), r.i) ELSE ParseFail
      [] At(txt, i) = "[" ->
            LET j == SkipWs(txt, i + 1) IN
            IF At(txt, j) = "]" THEN Parsed(JArr(<<>>), j + 1) ELSE ParseItems(txt, j, <<>>)
      [] At(txt, i) = "{" ->
            LET j == SkipWs(txt, i + 1) IN
            IF At(txt, j) = "}" THEN Parsed(JObj(<<>>), j + 1) ELSE ParseMembers(txt, j, <<>>)
      [] OTHER -> ParseFail

\* json.loads(txt): ok is FALSE where json.loads raises
JsonLoads(txt) ==
    LET r == ParseValue(txt, SkipWs(txt, 1)) IN
    IF r.ok /\ SkipWs(txt, r.i) = Len(txt) + 1 THEN r ELSE ParseFail

(***************************************************************************)
(* The SQLite database file and connections to it.                         *)
(* A database is [schema, snapshots, psi_results, geo_results,             *)
(* sqlite_sequence]; the tables are sequences of rows in rowid order.      *)
(***************************************************************************)
EmptyDb ==
    [schema |-> FALSE, snapshots |-> <<>>, psi_results |-> <<>>, geo_results |-> <<>>,
     sqlite_sequence |-> [snapshots |-> 0, psi_results |-> 0, geo_results |-> 0]]

\* a connection in autocommit mode (isolation_level=None): every statement is written
\* to the file as it executes
GetConnAutocommit(db) ==
    [disk |-> db, work |-> db, in_transaction |-> FALSE, autocommit |-> TRUE,
     foreign_keys |-> FALSE, total_changes |-> 0, lastrowid |-> 0]

\* sqlite3.connect() in its default transaction mode: foreign key enforcement is off on a
\* new connection, and the connection opens a transaction before the first INSERT/DELETE
GetConn(db) ==
    [disk |-> db, work |-> db, in_transaction |-> FALSE, autocommit |-> FALSE,
     foreign_keys |-> FALSE, total_changes |-> 0, lastrowid |-> 0]

\* a data-modifying statement that leaves the database as newdb and changed n rows
Write(conn, newdb, n) ==
    IF conn.autocommit
        THEN [conn EXCEPT !.disk = newdb, !.work = newdb, !.total_changes = @ + n]
        ELSE [conn EXCEPT !.work = newdb, !.in_transaction = TRUE, !.total_changes = @ + n]

\* conn.commit()
Commit(conn) == [conn EXCEPT !.disk = conn.work, !.in_transaction = FALSE]

\* conn.rollback()
Rollback(conn) == [conn EXCEPT !.work = conn.disk, !.in_transaction = FALSE]

\* conn.close(), or the connection dropped by an exception: what is then in the file
\* (an open transaction is rolled back)
Close(conn) == conn.disk

\* the rowid a table without AUTOINCREMENT gives: one more than the largest in the table
NextRowIdMaxPlusOne(db, table) == Max({0} \cup {db[table][i].id : i \in 1..Len(db[table])}) + 1

\* the rowid an AUTOINCREMENT table gives its next row
NextRowId(db, table) ==
    Max({db.sqlite_sequence[table]} \cup {db[table][i].id : i \in 1..Len(db[table])}) + 1

\* PRAGMA foreign_keys = ON
PragmaForeignKeysOn(conn) == [conn EXCEPT !.foreign_keys = TRUE]

\* DROP TABLE / CREATE TABLE: a schema script that recreates the tables
CreateTablesAfresh(conn) == [conn EXCEPT !.disk = [EmptyDb EXCEPT !.schema = TRUE],
                                         !.work = [EmptyDb EXCEPT !.schema = TRUE]]

\* CREATE TABLE IF NOT EXISTS snapshots / psi_results / geo_results
CreateTablesIfNotExist(conn) ==
    [conn EXCEPT !.disk = [conn.disk EXCEPT !.schema = TRUE],
                 !.work = [conn.work EXCEPT !.schema = TRUE]]

\* float(v), None where it raises
SafeFloat(v) ==
    CASE v.t = "num" -> v
      [] v.t = "text" -> IF v.n >= 0 THEN Num(v.n) ELSE NoScore
      [] OTHER -> NoScore

\* INSERT INTO snapshots(created_at, server, notes)
InsertSnapshot(conn, created_at, server, notes) ==
    LET db == conn.work
        id == NextRowId(db, "snapshots")
        row == [id |-> id, created_at |-> created_at, server |-> server, notes |-> notes]
    IN [Write(conn, [db EXCEPT !.snapshots = Append(@, row),
                               !.sqlite_sequence.snapshots = id], 1)
            EXCEPT !.lastrowid = id]

\* an INSERT that files every psi row under snapshot 1
InsertPsiUnderFirst(conn, snapshot_id, r) ==
    LET db == conn.work
        id == NextRowId(db, "psi_results")
        row == [id |-> id, snapshot_id |-> 1, url |-> r.url, status |-> r.status,
                score |-> SafeFloat(r.score), lcp |-> r.lcp, cls |-> r.cls,
                raw_json |-> JsonDumps(r.raw)]
    IN [Write(conn, [db EXCEPT !.psi_results = Append(@, row),
                               !.sqlite_sequence.psi_results = id], 1)
            EXCEPT !.lastrowid = id]

\* INSERT INTO psi_results(snapshot_id, url, status, score, lcp, cls, raw_json)
InsertPsi(conn, snapshot_id, r) ==
    LET db == conn.work
        id == NextRowId(db, "psi_results")
        row == [id |-> id, snapshot_id |-> snapshot_id, url |-> r.url, status |-> r.status,
                score |-> SafeFloat(r.score), lcp |-> r.lcp, cls |-> r.cls,
                raw_json |-> JsonDumps(r.raw)]
    IN [Write(conn, [db EXCEPT !.psi_results = Append(@, row),
                               !.sqlite_sequence.psi_results = id], 1)
            EXCEPT !.lastrowid = id]

\* str(v) of a JSON-typed Python value that is not a dict or a list
PlainText(v) ==
    CASE v.t = "str" -> v.s
      [] v.t = "null" -> <<"N", "o", "n", "e">>
      [] OTHER -> JsonDumps(v)

\* the geo INSERT with a result that is not a dict or a list stored as its plain str()
InsertGeoPlainString(conn, snapshot_id, r) ==
    LET db == conn.work
        id == NextRowId(db, "geo_results")
        row == [id |-> id, snapshot_id |-> snapshot_id, query |-> r.query,
                status |-> r.status,
                result_json |-> IF r.result.t \in {"obj", "arr"}
                                    THEN JsonDumps(r.result) ELSE PlainText(r.result)]
    IN [Write(conn, [db EXCEPT !.geo_results = Append(@, row),
                               !.sqlite_sequence.geo_results = id], 1)
            EXCEPT !.lastrowid = id]

\* INSERT INTO geo_results(snapshot_id, query, status, result_json)
InsertGeo(conn, snapshot_id, r) ==
    LET db == conn.work
        id == NextRowId(db, "geo_results")
        row == [id |-> id, snapshot_id |-> snapshot_id, query |-> r.query,
                status |-> r.status, result_json |-> JsonDumps(r.result)]
    IN [Write(conn, [db EXCEPT !.geo_results = Append(@, row),
                               !.sqlite_sequence.geo_results = id], 1)
            EXCEPT !.lastrowid = id]

\* the rows of a table, in rowid order, that are among keep
RowsOf(rows, keep) == SelectSeqBy(rows, keep)

\* SELECT id FROM snapshots WHERE created_at < cutoff
SelectOlderIds(conn, cutoff) ==
    LET rows == conn.work.snapshots
        old == RowsOf(rows, {r \in Range(rows) : TextLess(r.created_at, cutoff)})
    IN [i \in 1..Len(old) |-> old[i].id]

\* DELETE FROM snapshots WHERE created_at < cutoff
\* (ON DELETE CASCADE acts only on a connection that enforces foreign keys)
DeleteOlder(conn, cutoff) ==
    LET db == conn.work
        gone == {r \in Range(db.snapshots) : TextLess(r.created_at, cutoff)}
        goneIds == {r.id : r \in gone}
        psiGone == {r \in Range(db.psi_results) : r.snapshot_id \in goneIds}
        geoGone == {r \in Range(db.geo_results) : r.snapshot_id \in goneIds}
        snaps == RowsOf(db.snapshots, Range(db.snapshots) \ gone)
    IN IF conn.foreign_keys
        THEN Write(conn,
                   [db EXCEPT !.snapshots = snaps,
                              !.psi_results = RowsOf(@, Range(@) \ psiGone),
                              !.geo_results = RowsOf(@, Range(@) \ geoGone)],
                   Cardinality(gone) + Cardinality(psiGone) + Cardinality(geoGone))
        ELSE Write(conn, [db EXCEPT !.snapshots = snaps], Cardinality(gone))

(***************************************************************************)
(* app/db.py: init_db, save_snapshot, rotate_old_snapshots.                *)
(***************************************************************************)
\* init_db(db_path): executescript(SCHEMA) on a connection of its own, commit, close
InitDbRun(db) == Close(Commit(CreateTablesIfNotExist(PragmaForeignKeysOn(GetConn(db)))))

RECURSIVE InsertPsiRows(_, _, _, _)
\* the first k iterations of "for r in psi_rows: cur.execute(INSERT ...)"
InsertPsiRows(conn, snapshot_id, rows, k) ==
    IF k <= 0 \/ rows = <<>> THEN conn
    ELSE InsertPsiRows(InsertPsi(conn, snapshot_id, Head(rows)), snapshot_id, Tail(rows), k - 1)

RECURSIVE InsertGeoRows(_, _, _, _)
\* the first k iterations of "for r in geo_rows: cur.execute(INSERT ...)"
InsertGeoRows(conn, snapshot_id, rows, k) ==
    IF k <= 0 \/ rows = <<>> THEN conn
    ELSE InsertGeoRows(InsertGeo(conn, snapshot_id, Head(rows)), snapshot_id, Tail(rows), k - 1)

\* the statements save_snapshot executes: one snapshot INSERT, one INSERT per row, commit
SaveStatements(psi_rows, geo_rows) == Len(psi_rows) + Len(geo_rows) + 2

\* save_snapshot on the file db, with the timestamp now taken at its first line.
\* fail = 0: no statement raises; fail = k > 0: the k-th statement raises (the last
\* statement is the commit).  Without the schema the first INSERT raises.
SaveSnapshotRun(db, now, server, notes, psi_rows, geo_rows, fail) ==
    LET f == IF db.schema THEN fail ELSE 1
        done == IF f = 0 THEN SaveStatements(psi_rows, geo_rows) - 1 ELSE f - 1
        conn0 == GetConn(db)
        conn1 == IF done >= 1 THEN InsertSnapshot(conn0, now, server, notes) ELSE conn0
        snapshot_id == conn1.lastrowid
        conn2 == InsertPsiRows(conn1, snapshot_id, psi_rows, done - 1)
        conn3 == InsertGeoRows(conn2, snapshot_id, geo_rows, done - 1 - Len(psi_rows))
    IN IF f = 0
        THEN [raised |-> FALSE, db |-> Close(Commit(conn3)), snapshot_id |-> snapshot_id,
              executed |-> done + 1]
        ELSE [raised |-> TRUE, db |-> Close(conn3), snapshot_id |-> 0, executed |-> done]

\* rotate_old_snapshots with the commit left out
RotateDeleteRunNoCommit(db, cutoff, ids) ==
    [db |-> Close(DeleteOlder(GetConn(db), cutoff)), deleted_snapshots |-> Len(ids)]

\* rotate_old_snapshots from its DELETE on, on the connection that ran the SELECT
RotateDeleteRun(db, cutoff, ids) ==
    LET conn == Commit(DeleteOlder(GetConn(db), cutoff))
    IN [db |-> Close(conn), deleted_snapshots |-> Len(ids)]

(***************************************************************************)
(* app/main.py: list_snapshots, get_snapshot, api_rotate_snapshots.        *)
(***************************************************************************)
RECURSIVE InsertDesc(_, _)
\* r placed into a list ordered by created_at DESC, after the rows that do not sort below it
InsertDesc(sorted, r) ==
    IF sorted = <<>> THEN <<r>>
    ELSE IF TextLess(Head(sorted).created_at, r.created_at) THEN <<r>> \o sorted
    ELSE <<Head(sorted)>> \o InsertDesc(Tail(sorted), r)

RECURSIVE OrderByCreatedAtDesc(_)
OrderByCreatedAtDesc(rows) ==
    IF rows = <<>> THEN <<>>
    ELSE InsertDesc(OrderByCreatedAtDesc(SubSeq(rows, 1, Len(rows) - 1)), rows[Len(rows)])

\* SELECT id, created_at, server, notes FROM snapshots
\*   ORDER BY created_at DESC LIMIT limit OFFSET offset
ListSnapshotsRows(db, limit, offset) ==
    LET all == OrderByCreatedAtDesc(db.snapshots)
    IN SubSeq(all, offset + 1, Min2(Len(all), offset + limit))

\* row["raw"] = json.loads(raw_json) if raw_json else {}; the text itself if that raises
DecodeRaw(raw_json) ==
    IF raw_json = <<>> THEN JObj(<<>>)
    ELSE LET p == JsonLoads(raw_json) IN IF p.ok THEN p.v ELSE JStr(raw_json)

\* row["result"] = json.loads(result_json) if result_json else None; the text if that raises
DecodeResult(result_json) ==
    IF result_json = <<>> THEN JNull
    ELSE LET p == JsonLoads(result_json) IN IF p.ok THEN p.v ELSE JStr(result_json)

\* get_snapshot(snapshot_id): 404 when the snapshot row is missing, else the snapshot
\* with its psi_results and geo_results rows decoded
GetSnapshotRun(db, snapshot_id) ==
    LET snaps == RowsOf(db.snapshots, {r \in Range(db.snapshots) : r.id = snapshot_id})
        psi == RowsOf(db.psi_results,
                      {r \in Range(db.psi_results) : r.snapshot_id = snapshot_id})
        geo == RowsOf(db.geo_results,
                      {r \in Range(db.geo_results) : r.snapshot_id = snapshot_id})
    IN IF snaps = <<>>
        THEN [status |-> 404, snapshot |-> <<>>, psi_results |-> <<>>, geo_results |-> <<>>]
        ELSE [status |-> 200,
              snapshot |-> snaps[1],
              psi_results |-> [i \in 1..Len(psi) |->
                  [url |-> psi[i].url, status |-> psi[i].status, score |-> psi[i].score,
                   lcp |-> psi[i].lcp, cls |-> psi[i].cls, raw |-> DecodeRaw(psi[i].raw_json)]],
              geo_results |-> [i \in 1..Len(geo) |->
                  [query |-> geo[i].query, status |-> geo[i].status,
                   result |-> DecodeResult(geo[i].result_json)]]]

\* SELECT COUNT(*) AS c FROM snapshots WHERE created_at < cutoff
CountOlder(db, cutoff) == Len(SelectOlderIds(GetConn(db), cutoff))

(***************************************************************************)
(* The inputs the handlers are called with.                                *)
(***************************************************************************)
Chars(w) ==
    CASE w = "timeout" -> <<"t", "i", "m", "e", "o", "u", "t">>
      [] w = "note" -> <<"n", "o", "t", "e">>
      [] w = "off" -> <<"o", "f", "f">>
      [] w = "a" -> <<"a">>
      [] w = "d" -> <<"d">>
      [] w = "k" -> <<"k">>
      [] w = "[]" -> <<"[", "]">>
      [] w = "None" -> <<"N", "o", "n", "e">>
      [] w = "ai_answer" -> <<"a", "i", "_", "a", "n", "s", "w", "e", "r">>
      [] w = "answer" -> <<"a", "n", "s", "w", "e", "r">>
      [] w = "cited_domains" -> <<"c", "i", "t", "e", "d", "_", "d", "o", "m", "a", "i", "n", "s">>
      [] w = "cited" -> <<"c", "i", "t", "e", "d">>
      [] w = "query" -> <<"q", "u", "e", "r", "y">>
      [] w = "x" -> <<"x">>
      [] w = "site" -> <<"s", "i", "t", "e">>
      [] w = "site_hostname" ->
            <<"s", "i", "t", "e", "_", "h", "o", "s", "t", "n", "a", "m", "e">>
      [] w = "Sorry" -> <<"S", "o", "r", "r", "y">>
      [] w = "message" -> <<"m", "e", "s", "s", "a", "g", "e">>
      [] w = "error" -> <<"e", "r", "r", "o", "r">>
      [] w = "stub" -> <<"s", "t", "u", "b">>
      [] w = "failed" -> <<"f", "a", "i", "l", "e", "d">>
      [] w = "results" -> <<"r", "e", "s", "u", "l", "t", "s">>
      [] w = "received" -> <<"r", "e", "c", "e", "i", "v", "e", "d">>
      [] w = "queries" -> <<"q", "u", "e", "r", "i", "e", "s">>
      [] w = "lighthouseResult" ->
            <<"l", "i", "g", "h", "t", "h", "o", "u", "s", "e", "R", "e", "s", "u", "l", "t">>
      [] w = "OpenAI not configured" ->
            <<"O", "p", "e", "n", "A", "I", " ", "n", "o", "t", " ", "c", "o", "n", "f", "i",
              "g", "u", "r", "e", "d">>
      [] w = "not JSON" -> <<"n", "o", "t", " ", "J", "S", "O", "N">>
      [] w = "no get" -> <<"n", "o", " ", "g", "e", "t">>
      [] w = "not iterable" -> <<"n", "o", "t", " ", "i", "t", "e", "r", "a", "b", "l", "e">>
      [] w = "q1" -> <<"q", "1">>
      [] w = "q2" -> <<"q", "2">>
      [] w = "a\"\\" -> <<"a", "\"", "\\">>

PsiOk ==
    [url |-> "https://a.com", status |-> "ok", score |-> Num(91), lcp |-> "1.2s",
     cls |-> "0.01", raw |-> JObj(<<>>)]
PsiErr ==
    [url |-> "https://b.com", status |-> "error", score |-> NoScore, lcp |-> None,
     cls |-> None, raw |-> JStr(Chars("timeout"))]
GeoStub ==
    [query |-> "best plumber", status |-> "stub",
     result |-> JObj(<<Member(Chars("note"), JStr(Chars("off")))>>)]

SaveInputs ==
    { [server |-> "local", notes |-> "t1", psi_rows |-> <<PsiOk>>, geo_rows |-> <<>>],
      [server |-> "http://127.0.0.1:8000", notes |-> "daily cron run",
       psi_rows |-> <<PsiOk, PsiErr>>, geo_rows |-> <<GeoStub>>] }

\* rows whose raw/result run over the JSON values: object, array, string and null,
\* with the strings that read like something else (empty, "null", "[]", quoted)
RoundTripInputs ==
    { [server |-> "local", notes |-> "t1", psi_rows |-> <<PsiOk>>, geo_rows |-> <<>>],
      [server |-> "local", notes |-> "manual trigger",
       psi_rows |-> <<[PsiErr EXCEPT !.raw = JNull], [PsiErr EXCEPT !.raw = JStr(<<>>)]>>,
       geo_rows |-> <<[query |-> "q1", status |-> "ok", result |-> JNull],
                      [query |-> "q2", status |-> "error", result |-> JStr(<<>>)]>>],
      [server |-> "local", notes |-> "",
       psi_rows |-> <<[PsiOk EXCEPT !.score = Num(0),
                                    !.raw = JArr(<<JStr(Chars("d")), JNull>>)],
                      [PsiErr EXCEPT !.raw = JStr(NullText)]>>,
       geo_rows |-> <<[query |-> "q1", status |-> "ok", result |-> JArr(<<>>)],
                      [query |-> "q1", status |-> "error",
                       result |-> JStr(Chars("a\"\\"))]>>],
      [server |-> "http://127.0.0.1:8000", notes |-> "daily cron run",
       psi_rows |-> <<[PsiOk EXCEPT !.lcp = None,
                                    !.raw = JObj(<<Member(Chars("k"), JObj(<<>>))>>)]>>,
       geo_rows |-> <<[query |-> "q1", status |-> "ok",
                       result |-> JObj(<<Member(Chars("ai_answer"), JStr(Chars("a"))),
                                         Member(Chars("cited_domains"),
                                                JArr(<<JStr(Chars("d"))>>))>>)],
                      [query |-> "q2", status |-> "error",
                       result |-> JStr(Chars("[]"))]>>] }

\* the most statements one save_snapshot call executes
MaxStatements ==
    Max({SaveStatements(in.psi_rows, in.geo_rows) : in \in SaveInputs \cup RoundTripInputs})

KeepDays == {0, 1}
\* the processes that call into the store: the web application (one request at a time)
\* and the operator's cron job running the scripts
App == {"app"}
Cron == {"cron"}
Clients == App \cup Cron

Idle == [pc |-> "idle"]
NoExec == [valid |-> FALSE, keep_days |-> 0, cutoff |-> <<>>, n |-> 0]

\* this pass follows a completed execute pass with the same keep_days, with no snapshot
\* written since
Again(keep_days) == lastExec.valid /\ lastExec.keep_days = keep_days
\* ... and that pass had this cutoff
SameCutoff(cutoff) == lastExec.valid /\ lastExec.cutoff = cutoff
\* ... and returned this count
FirstCount == IF lastExec.valid THEN lastExec.n ELSE 0

InFlightSaves == Cardinality({c \in Clients : calls[c].pc = "save"})

(***************************************************************************)
(* The state after construction: an empty database file, nobody calling.   *)
(***************************************************************************)
Init ==
    /\ store = EmptyDb
    /\ clock = StartClock
    /\ calls = [c \in Clients |-> Idle]
    /\ resp = [op |-> "none"]
    /\ lastExec = NoExec
    /\ written = <<>>

\* time passes
Tick ==
    /\ clock < MaxClock
    /\ clock' = clock + 1
    /\ UNCHANGED <<store, calls, resp, lastExec, written>>

\* init_db(db_path)
InitDb(c) ==
    /\ calls[c].pc = "idle"
    /\ store' = InitDbRun(store)
    /\ resp' = [op |-> "init_db"]
    /\ UNCHANGED <<clock, calls, lastExec, written>>

\* save_snapshot, line 53: the timestamp is taken before the connection is opened
SaveSnapshotCall(c, in) ==
    /\ calls[c].pc = "idle"
    /\ store.sqlite_sequence.snapshots + InFlightSaves < MaxId
    /\ calls' = [calls EXCEPT ![c] = [pc |-> "save", now |-> Timestamp(clock), in |-> in]]
    /\ UNCHANGED <<store, clock, resp, lastExec, written>>

\* save_snapshot, lines 54-73: the inserts and the commit, or an exception on the way
SaveSnapshotWrite(c, fail) ==
    /\ calls[c].pc = "save"
    /\ LET in == calls[c].in
           r == SaveSnapshotRun(store, calls[c].now, in.server, in.notes,
                                in.psi_rows, in.geo_rows, fail)
       IN /\ fail \in 0..SaveStatements(in.psi_rows, in.geo_rows)
          /\ store.schema \/ fail = 1
          /\ store' = r.db
          /\ resp' = [op |-> "save_snapshot", raised |-> r.raised,
                      snapshot_id |-> r.snapshot_id, executed |-> r.executed]
          /\ written' = IF r.raised THEN written
                        ELSE (r.snapshot_id :> [now |-> calls[c].now, in |-> in]) @@ written
          /\ lastExec' = IF r.raised THEN lastExec ELSE NoExec
    /\ calls' = [calls EXCEPT ![c] = Idle]
    /\ UNCHANGED clock

\* get_snapshot(snapshot_id)
GetSnapshot(c, snapshot_id) ==
    /\ calls[c].pc = "idle"
    /\ store.schema
    /\ resp' = [op |-> "get_snapshot", snapshot_id |-> snapshot_id,
                body |-> GetSnapshotRun(store, snapshot_id)]
    /\ UNCHANGED <<store, clock, calls, lastExec, written>>

\* a dry run that goes through rotate_old_snapshots and reports its count
ApiRotateDryRunDeletes(c, keep_days) ==
    /\ calls[c].pc = "idle"
    /\ LET cutoff == Cutoff(clock, keep_days)
           r == RotateDeleteRun(store, cutoff, SelectOlderIds(GetConn(store), cutoff))
       IN /\ store' = IF store.schema THEN r.db ELSE store
          /\ resp' = [op |-> "rotate_dry_run", raised |-> ~store.schema,
                      keep_days |-> keep_days, cutoff |-> cutoff,
                      would_delete_snapshots |->
                          IF store.schema THEN r.deleted_snapshots ELSE 0]
    /\ UNCHANGED <<clock, calls, lastExec, written>>

\* api_rotate_snapshots(keep_days, dry_run=True)
ApiRotateDryRun(c, keep_days) ==
    /\ calls[c].pc = "idle"
    /\ LET cutoff == Cutoff(clock, keep_days)
       IN resp' = [op |-> "rotate_dry_run", raised |-> ~store.schema,
                   keep_days |-> keep_days, cutoff |-> cutoff,
                   would_delete_snapshots |->
                       IF store.schema THEN CountOlder(store, cutoff) ELSE 0]
    /\ UNCHANGED <<store, clock, calls, lastExec, written>>

\* api_rotate_snapshots(keep_days, dry_run=False) -> rotate_old_snapshots, lines 86-94:
\* the cutoff, the SELECT of the expired ids, and the return of 0 when there are none
RotateSelect(c, keep_days) ==
    /\ calls[c].pc = "idle"
    /\ LET cutoff == Cutoff(clock, keep_days)
           ids == SelectOlderIds(GetConn(store), cutoff)
       IN IF ~store.schema
            THEN /\ resp' = [op |-> "rotate_execute", raised |-> TRUE,
                             keep_days |-> keep_days, cutoff |-> cutoff,
                             deleted_snapshots |-> 0, removed |-> {},
                             again |-> Again(keep_days), same_cutoff |-> SameCutoff(cutoff),
                             first |-> FirstCount]
                 /\ UNCHANGED <<calls, lastExec>>
          ELSE IF ids = <<>>
            THEN /\ resp' = [op |-> "rotate_execute", raised |-> FALSE,
                             keep_days |-> keep_days, cutoff |-> cutoff,
                             deleted_snapshots |-> 0, removed |-> {},
                             again |-> Again(keep_days), same_cutoff |-> SameCutoff(cutoff),
                             first |-> FirstCount]
                 /\ lastExec' = [valid |-> TRUE, keep_days |-> keep_days,
                                 cutoff |-> cutoff, n |-> 0]
                 /\ UNCHANGED calls
          ELSE /\ calls' = [calls EXCEPT ![c] =
                               [pc |-> "rotate", keep_days |-> keep_days,
                                cutoff |-> cutoff, ids |-> ids,
                                again |-> Again(keep_days),
                                same_cutoff |-> SameCutoff(cutoff), first |-> FirstCount]]
               /\ UNCHANGED <<resp, lastExec>>
    /\ UNCHANGED <<store, clock, written>>

\* rotate_old_snapshots, lines 95-101: the DELETE, the commit and the count returned
RotateDelete(c) ==
    /\ calls[c].pc = "rotate"
    /\ LET r == RotateDeleteRun(store, calls[c].cutoff, calls[c].ids)
       IN /\ store' = r.db
          /\ resp' = [op |-> "rotate_execute", raised |-> FALSE,
                      keep_days |-> calls[c].keep_days, cutoff |-> calls[c].cutoff,
                      deleted_snapshots |-> r.deleted_snapshots,
                      removed |-> {x.id : x \in Range(store.snapshots)}
                                    \ {x.id : x \in Range(r.db.snapshots)},
                      again |-> calls[c].again, same_cutoff |-> calls[c].same_cutoff,
                      first |-> calls[c].first]
    /\ lastExec' = [valid |-> TRUE, keep_days |-> calls[c].keep_days,
                    cutoff |-> calls[c].cutoff, n |-> Len(calls[c].ids)]
    /\ calls' = [calls EXCEPT ![c] = Idle]
    /\ UNCHANGED <<clock, written>>

RECURSIVE InsertAsc(_, _)
\* r placed into a list ordered by created_at ASC, after the rows that do not sort above it
InsertAsc(sorted, r) ==
    IF sorted = <<>> THEN <<r>>
    ELSE IF TextLess(r.created_at, Head(sorted).created_at) THEN <<r>> \o sorted
    ELSE <<Head(sorted)>> \o InsertAsc(Tail(sorted), r)

RECURSIVE OrderByCreatedAtAsc(_)
OrderByCreatedAtAsc(rows) ==
    IF rows = <<>> THEN <<>>
    ELSE InsertAsc(OrderByCreatedAtAsc(SubSeq(rows, 1, Len(rows) - 1)), rows[Len(rows)])

\* SELECT id, created_at FROM snapshots WHERE created_at < cutoff ORDER BY created_at ASC,
\* and ids = [r["id"] for r in rows]
ScriptSelectOlderIds(conn, cutoff) ==
    LET rows == conn.work.snapshots
        old == OrderByCreatedAtAsc(
                   RowsOf(rows, {r \in Range(rows) : TextLess(r.created_at, cutoff)}))
    IN [i \in 1..Len(old) |-> old[i].id]

\* scripts/rotate_snapshots.py main, lines 27-54: the cutoff, the SELECT, and the return
\* when nothing is expired or --dry-run is given
ScriptSelect(c, keep_days, dry_run) ==
    /\ calls[c].pc = "idle"
    /\ store.schema
    /\ LET cutoff == Cutoff(clock, keep_days)
           ids == ScriptSelectOlderIds(GetConn(store), cutoff)
       IN IF ids = <<>> \/ dry_run
            THEN /\ resp' = [op |-> "script_rotate", dry_run |-> dry_run,
                             keep_days |-> keep_days, cutoff |-> cutoff,
                             found |-> Len(ids), deleted |-> 0]
                 /\ UNCHANGED calls
            ELSE /\ calls' = [calls EXCEPT ![c] =
                                 [pc |-> "script", keep_days |-> keep_days,
                                  cutoff |-> cutoff, ids |-> ids]]
                 /\ UNCHANGED resp
    /\ UNCHANGED <<store, clock, lastExec, written>>

\* scripts/rotate_snapshots.py main, lines 56-68: the DELETE, total_changes, the commit
ScriptDelete(c) ==
    /\ calls[c].pc = "script"
    /\ LET conn == DeleteOlder(GetConn(store), calls[c].cutoff)
       IN /\ store' = Close(Commit(conn))
          /\ resp' = [op |-> "script_rotate", dry_run |-> FALSE,
                      keep_days |-> calls[c].keep_days, cutoff |-> calls[c].cutoff,
                      found |-> Len(calls[c].ids), deleted |-> conn.total_changes]
    /\ calls' = [calls EXCEPT ![c] = Idle]
    /\ UNCHANGED <<clock, lastExec, written>>

Next ==
    \/ Tick
    \/ \E c \in App : InitDb(c)
    \/ \E c \in App, in \in SaveInputs : SaveSnapshotCall(c, in)
    \/ \E c \in App, fail \in 0..MaxStatements : SaveSnapshotWrite(c, fail)
    \/ \E c \in App, id \in 1..MaxId : GetSnapshot(c, id)
    \/ \E c \in App, k \in KeepDays : ApiRotateDryRun(c, k)
    \/ \E c \in App, k \in KeepDays : RotateSelect(c, k)
    \/ \E c \in App : RotateDelete(c)
    \/ \E c \in Cron, k \in KeepDays, dry \in BOOLEAN : ScriptSelect(c, k, dry)
    \/ \E c \in Cron : ScriptDelete(c)

Spec == Init /\ [][Next]_vars

\* writes with the round-trip inputs, reads, and retention
NextRoundTrip ==
    \/ Tick
    \/ \E c \in App : InitDb(c)
    \/ \E c \in App, in \in RoundTripInputs : SaveSnapshotCall(c, in)
    \/ \E c \in App, fail \in 0..MaxStatements : SaveSnapshotWrite(c, fail)
    \/ \E c \in App, id \in 1..MaxId : GetSnapshot(c, id)
    \/ \E c \in App, k \in KeepDays : RotateSelect(c, k)
    \/ \E c \in App : RotateDelete(c)

SpecRoundTrip == Init /\ [][NextRoundTrip]_vars

(***************************************************************************)
(* Collection: snapshots_trigger (app/main.py), geo_check (app/routers.py) *)
(* and scripts/daily_snapshot.py.                                          *)
(***************************************************************************)
\* rows shown in the trigger's response
PreviewLimit == 10

\* what one fetch_pagespeed(url) task ends with: an exception, or the dict it returns
Pending == [t |-> "pending"]
FetchRaised(msg) == [t |-> "exc", msg |-> msg]
FetchResult(score, lcp, cls) ==
    [t |-> "res", performance_score |-> score, lcp |-> lcp, cls |-> cls,
     raw |-> JObj(<<Member(Chars("lighthouseResult"), JObj(<<>>))>>)]

\* the outcomes of the metric provider for a URL: it fails, or answers what it has for
\* that URL (https://b.com has no score and no vitals)
FetchOutcomes(url) ==
    {FetchRaised(Chars("timeout")),
     IF url = "https://b.com" THEN FetchResult(NoScore, None, None)
                              ELSE FetchResult(Num(91), "1.2s", "0.01")}

\* snapshots_trigger, lines 359-372: one row per (url, result) pair of zip(urls, results)
PsiRowOfResult(u, res) ==
    IF res.t = "exc"
        THEN [url |-> u, status |-> "error", score |-> NoScore, lcp |-> None, cls |-> None,
              raw |-> JStr(res.msg)]
        ELSE [url |-> u, status |-> "ok", score |-> res.performance_score,
              lcp |-> res.lcp, cls |-> res.cls, raw |-> res.raw]

\* rows only for the results that are not exceptions
PsiRowsOfGatherDropFailed(urls, results) ==
    LET ok == SelectSeqBy([i \in 1..Min2(Len(urls), Len(results)) |-> i],
                          {i \in 1..Min2(Len(urls), Len(results)) : results[i].t # "exc"})
    IN [j \in 1..Len(ok) |-> PsiRowOfResult(urls[ok[j]], results[ok[j]])]

PsiRowsOfGather(urls, results) ==
    [i \in 1..Min2(Len(urls), Len(results)) |-> PsiRowOfResult(urls[i], results[i])]

\* collect_psi of daily_snapshot.py, lines 32-48: the row of one URL, from the answer of
\* GET /audit/psi (audit_psi returns no "raw", so data.get("raw", {}) is {})
DailyPsiRow(u, res) ==
    IF res.t = "exc"
        THEN [url |-> u, status |-> "error", score |-> NoScore, lcp |-> None, cls |-> None,
              raw |-> JStr(res.msg)]
        ELSE [url |-> u, status |-> "ok", score |-> res.performance_score,
              lcp |-> res.lcp, cls |-> res.cls, raw |-> JObj(<<>>)]

DailyPsiRows(urls, results) == [i \in 1..Len(urls) |-> DailyPsiRow(urls[i], results[i])]

\* Python truth of a value, and "a or b"
Truthy(v) == v \notin {JNull, JStr(<<>>), JArr(<<>>), JObj(<<>>)}
PyOr(a, b) == IF Truthy(a) THEN a ELSE b

\* item.get(key) on a dict
DictGet(item, key) ==
    IF \E j \in 1..Len(item.items) : item.items[j].k = key
        THEN item.items[CHOOSE j \in 1..Len(item.items) : item.items[j].k = key].v
        ELSE JNull

\* snapshots_trigger, lines 398-403: the row of one parsed item
GeoRowOfItem(item) ==
    LET cited == PyOr(PyOr(DictGet(item, Chars("cited_domains")),
                           DictGet(item, Chars("cited"))), JArr(<<>>))
    IN [query |-> DictGet(item, Chars("query")), status |-> "ok",
        result |-> JObj(<<Member(Chars("ai_answer"),
                                 PyOr(DictGet(item, Chars("ai_answer")),
                                      DictGet(item, Chars("answer")))),
                          Member(Chars("cited_domains"),
                                 IF cited.t = "str" THEN JArr(<<cited>>) ELSE cited)>>)]

\* lines 405-406: one error row per query
GeoErrorRows(queries, msg) ==
    [i \in 1..Len(queries) |-> [query |-> queries[i], status |-> "error", result |-> JStr(msg)]]

\* lines 409-410: one stub row per query
GeoStubRows(queries) ==
    [i \in 1..Len(queries) |->
        [query |-> queries[i], status |-> "stub",
         result |-> JObj(<<Member(Chars("note"), JStr(Chars("OpenAI not configured")))>>)]]

\* what "for item in parsed" iterates over: the items of a list, the keys of a dict, the
\* characters of a str; None is not iterable
Iterable(v) == v.t # "null"
ItemsOf(v) ==
    CASE v.t = "arr" -> v.items
      [] v.t = "obj" -> [j \in 1..Len(v.items) |-> JStr(v.items[j].k)]
      [] v.t = "str" -> [j \in 1..Len(v.s) |-> JStr(<<v.s[j]>>)]
      [] OTHER -> <<>>

RECURSIVE GeoLoop(_, _, _)
\* lines 397-406: the loop over the parsed items appends to geo_rows; an item without
\* .get raises, and the handler then appends one error row per query
GeoLoop(items, queries, geo_rows) ==
    IF items = <<>> THEN geo_rows
    ELSE IF Head(items).t # "obj" THEN geo_rows \o GeoErrorRows(queries, Chars("no get"))
    ELSE GeoLoop(Tail(items), queries, Append(geo_rows, GeoRowOfItem(Head(items))))

\* the answer provider's outcome: not configured, the call raises, or its text
Unconfigured == [kind |-> "unconfigured"]
ProviderRaises == [kind |-> "raise"]
ProviderText(text) == [kind |-> "text", text |-> text]

\* the batched call or the handling of its answer raised
GeoFailed(outcome) ==
    \/ outcome.kind = "raise"
    \/ /\ outcome.kind = "text"
       /\ LET p == JsonLoads(outcome.text)
          IN \/ ~p.ok
             \/ ~Iterable(p.v)
             \/ \E j \in 1..Len(ItemsOf(p.v)) : ItemsOf(p.v)[j].t # "obj"

\* snapshots_trigger, lines 375-410
GeoRowsOfTrigger(queries, outcome) ==
    IF queries = <<>> THEN <<>>
    ELSE CASE outcome.kind = "unconfigured" -> GeoStubRows(queries)
           [] outcome.kind = "raise" -> GeoErrorRows(queries, Chars("failed"))
           [] OTHER ->
                LET p == JsonLoads(outcome.text)
                IN IF ~p.ok THEN GeoErrorRows(queries, Chars("not JSON"))
                   ELSE IF ~Iterable(p.v) THEN GeoErrorRows(queries, Chars("not iterable"))
                   ELSE GeoLoop(ItemsOf(p.v), queries, <<>>)

\* geo_check of routers.py: the body of its 200 answer
GeoCheckBody(queries, outcome) ==
    LET received == JObj(<<Member(Chars("queries"), JArr(queries)),
                           Member(Chars("site_hostname"), JStr(Chars("site")))>>)
        stub == JObj(<<Member(Chars("message"), JStr(Chars("stub"))),
                       Member(Chars("received"), received)>>)
        failed == JObj(<<Member(Chars("message"), JStr(Chars("failed"))),
                         Member(Chars("error"), JStr(Chars("error"))),
                         Member(Chars("received"), received)>>)
    IN IF outcome.kind = "unconfigured" THEN stub
       ELSE IF GeoFailed(outcome) THEN failed
       ELSE LET items == ItemsOf(JsonLoads(outcome.text).v)
            IN JObj(<<Member(Chars("site_hostname"), JStr(Chars("site"))),
                      Member(Chars("results"),
                             JArr([j \in 1..Len(items) |->
                                     LET row == GeoRowOfItem(items[j])
                                     IN JObj(<<Member(Chars("query"), row.query)>>
                                              \o row.result.items)]))>>)

\* collect_geo of daily_snapshot.py, lines 56-64: one POST /geo/check per query; the row
\* is "ok" with the body for a 200 answer and "error" when the request fails
DailyGeoRow(q, http_ok, outcome) ==
    IF http_ok
        THEN [query |-> q, status |-> "ok", result |-> GeoCheckBody(<<q>>, outcome)]
        ELSE [query |-> q, status |-> "error", result |-> JStr(Chars("failed"))]

DailyGeoRows(queries, http, outcome) ==
    [i \in 1..Len(queries) |-> DailyGeoRow(queries[i], http[i], outcome)]

\* "psi_rows if len(psi_rows) <= 10 else psi_rows[:10]"
Preview(rows) == IF Len(rows) <= PreviewLimit THEN rows ELSE SubSeq(rows, 1, PreviewLimit)

\* collection runs start while the store and the runs in flight make fewer than this
MaxRuns == 1

Q1 == JStr(Chars("q1"))
Q2 == JStr(Chars("q2"))

\* the item the prompt asks for, and one with the other keys the code accepts
ProviderItem(q) ==
    JObj(<<Member(Chars("query"), q), Member(Chars("ai_answer"), JStr(Chars("a"))),
           Member(Chars("cited_domains"), JArr(<<JStr(Chars("d"))>>))>>)
AltItem(q) ==
    JObj(<<Member(Chars("query"), q), Member(Chars("answer"), JStr(Chars("a"))),
           Member(Chars("cited"), JStr(Chars("d")))>>)

\* what the answer provider can do with a batch: one item per query, fewer, more, an
\* array whose second item is not an object, or text that is not JSON
ProviderOutcomes(queries) ==
    IF queries = <<>> THEN {Unconfigured}
    ELSE LET full == [i \in 1..Len(queries) |-> ProviderItem(queries[i])]
         IN {Unconfigured, ProviderRaises}
            \cup {ProviderText(JsonDumps(JArr(items))) :
                    items \in {full, [i \in 1..(Len(queries) - 1) |-> AltItem(queries[i])],
                               Append(full, ProviderItem(Q2)),
                               <<ProviderItem(queries[1]), JStr(Chars("x"))>>}}
            \cup {ProviderText(Chars("Sorry"))}

TriggerUrls == <<"https://a.com", "https://b.com", "https://c.com">>
TriggerQueries == <<Q1, Q2>>
TriggerRequests ==
    [urls : {<<>>, TriggerUrls}, queries : {<<>>, TriggerQueries}, save : BOOLEAN,
     notes : {"manual trigger"}]

DailyUrls == <<"https://a.com", "https://b.com">>
DailyQueries == <<Q1>>
DailyInputs == [urls : {<<>>, DailyUrls}, queries : {<<>>, DailyQueries}, configured : BOOLEAN]

\* every outcome a fetch of one of these URLs can have
AllFetchOutcomes(urls) == UNION {FetchOutcomes(u) : u \in Range(urls)}
\* the most statements a save of a collection run executes: the snapshot, a row per URL,
\* the rows of the longest answer followed by an error row per query, and the commit
MaxRunStatements == Len(TriggerUrls) + 2 * Len(TriggerQueries) + 3

\* collection runs in flight
InFlightRuns == Cardinality({c \in Clients : calls[c].pc \in {"daily", "gather"}})

\* POST /snapshots/trigger, lines 355-357: one fetch_pagespeed task per URL is started
TriggerCall(c, req) ==
    /\ calls[c].pc = "idle"
    /\ store.sqlite_sequence.snapshots + InFlightRuns < MaxRuns
    /\ calls' = [calls EXCEPT ![c] = [pc |-> "gather", req |-> req,
                                      results |-> [i \in 1..Len(req.urls) |-> Pending]]]
    /\ resp' = [op |-> "none"]
    /\ UNCHANGED <<store, clock, lastExec, written>>

\* task i of the gather finishes, with a result or an exception
FetchDone(c, i, outcome) ==
    /\ calls[c].pc = "gather"
    /\ i \in 1..Len(calls[c].results)
    /\ calls[c].results[i] = Pending
    /\ outcome \in FetchOutcomes(calls[c].req.urls[i])
    /\ calls' = [calls EXCEPT ![c].results[i] = outcome]
    /\ UNCHANGED <<store, clock, resp, lastExec, written>>

\* saved reported whatever the id
SavedAlways(snapshot_id) == TRUE

\* bool(snapshot_id), None being 0 here
BoolOfId(snapshot_id) == snapshot_id # 0

\* a handler that answers without waiting for the tasks it started
TriggerRespondNoBarrier(c, outcome, fail) ==
    /\ calls[c].pc = "gather"
    /\ outcome = Unconfigured /\ fail = 0
    /\ resp' = [op |-> "trigger", status |-> 200, req |-> calls[c].req,
                results |-> calls[c].results, outcome |-> outcome, failed_at |-> 0,
                snapshot_id |-> 0, psi_count |-> 0, geo_count |-> 0, saved |-> FALSE,
                psi_rows |-> <<>>, geo_rows |-> <<>>]
    /\ calls' = [calls EXCEPT ![c] = Idle]
    /\ UNCHANGED <<store, clock, lastExec, written>>

\* lines 358-428: after the gather, the rows, the save and the response.  fail = -1:
\* init_db raises; fail = k > 0: the k-th statement of save_snapshot raises
TriggerRespond(c, outcome, fail) ==
    /\ calls[c].pc = "gather"
    /\ \A i \in 1..Len(calls[c].results) : calls[c].results[i] # Pending
    /\ LET req == calls[c].req
           psi_rows == PsiRowsOfGather(req.urls, calls[c].results)
           geo_rows == GeoRowsOfTrigger(req.queries, outcome)
           r == IF fail = -1
                    THEN [raised |-> TRUE, db |-> store, snapshot_id |-> 0, executed |-> 0]
                    ELSE SaveSnapshotRun(InitDbRun(store), Timestamp(clock), "local",
                                         req.notes, psi_rows, geo_rows, fail)
           snapshot_id == IF req.save THEN r.snapshot_id ELSE 0
       IN /\ outcome \in ProviderOutcomes(req.queries)
          /\ fail \in IF req.save THEN -1..SaveStatements(psi_rows, geo_rows) ELSE {0}
          /\ store' = IF req.save THEN r.db ELSE store
          /\ resp' = IF req.save /\ r.raised
                THEN [op |-> "trigger", status |-> 500, req |-> req, failed_at |-> fail]
                ELSE [op |-> "trigger", status |-> 200, req |-> req,
                      results |-> calls[c].results, outcome |-> outcome, failed_at |-> 0,
                      snapshot_id |-> snapshot_id, psi_count |-> Len(psi_rows),
                      geo_count |-> Len(geo_rows), saved |-> BoolOfId(snapshot_id),
                      psi_rows |-> Preview(psi_rows), geo_rows |-> Preview(geo_rows)]
    /\ calls' = [calls EXCEPT ![c] = Idle]
    /\ UNCHANGED <<clock, lastExec, written>>

\* daily_snapshot.py main, lines 78-85: init_db, then the inputs are read
DailyStart(c, in) ==
    /\ calls[c].pc = "idle"
    /\ store.sqlite_sequence.snapshots + InFlightRuns < MaxRuns
    /\ store' = InitDbRun(store)
    /\ calls' = [calls EXCEPT ![c] = [pc |-> "daily", in |-> in, results |-> <<>>,
                                      http |-> <<>>, psi_rows |-> <<>>, geo_rows |-> <<>>]]
    /\ resp' = [op |-> "none"]
    /\ UNCHANGED <<clock, lastExec, written>>

\* collect_psi: the next URL is fetched through GET /audit/psi
DailyPsi(c, res) ==
    /\ calls[c].pc = "daily"
    /\ Len(calls[c].psi_rows) < Len(calls[c].in.urls)
    /\ LET u == calls[c].in.urls[Len(calls[c].psi_rows) + 1]
       IN /\ res \in FetchOutcomes(u)
          /\ calls' = [calls EXCEPT ![c].psi_rows = Append(@, DailyPsiRow(u, res)),
                                    ![c].results = Append(@, res)]
    /\ UNCHANGED <<store, clock, resp, lastExec, written>>

\* collect_geo: the next query is posted to /geo/check
DailyGeo(c, http_ok, outcome) ==
    /\ calls[c].pc = "daily"
    /\ Len(calls[c].psi_rows) = Len(calls[c].in.urls)
    /\ Len(calls[c].geo_rows) < Len(calls[c].in.queries)
    /\ LET q == calls[c].in.queries[Len(calls[c].geo_rows) + 1]
       IN /\ outcome \in ProviderOutcomes(<<q>>)
          /\ (outcome = Unconfigured) = ~calls[c].in.configured
          /\ calls' = [calls EXCEPT ![c].geo_rows = Append(@, DailyGeoRow(q, http_ok, outcome)),
                                    ![c].http = Append(@, http_ok)]
    /\ UNCHANGED <<store, clock, resp, lastExec, written>>

\* main, lines 91-97: save_snapshot, exit status 3 when it raises
DailySave(c, fail) ==
    /\ calls[c].pc = "daily"
    /\ Len(calls[c].psi_rows) = Len(calls[c].in.urls)
    /\ Len(calls[c].geo_rows) = Len(calls[c].in.queries)
    /\ LET r == SaveSnapshotRun(store, Timestamp(clock), "http://127.0.0.1:8000",
                                "daily cron run", calls[c].psi_rows, calls[c].geo_rows, fail)
       IN /\ fail \in 0..SaveStatements(calls[c].psi_rows, calls[c].geo_rows)
          /\ store' = r.db
          /\ resp' = [op |-> "daily", exit |-> IF r.raised THEN 3 ELSE 0,
                      in |-> calls[c].in, results |-> calls[c].results,
                      http |-> calls[c].http, snapshot_id |-> r.snapshot_id,
                      psi_rows |-> calls[c].psi_rows, geo_rows |-> calls[c].geo_rows]
    /\ calls' = [calls EXCEPT ![c] = Idle]
    /\ UNCHANGED <<clock, lastExec, written>>

\* collection: the interactive trigger in the application, the daily script from cron
NextTrigger ==
    \/ \E c \in App, req \in TriggerRequests : TriggerCall(c, req)
    \/ \E c \in App, i \in 1..Len(TriggerUrls), outcome \in AllFetchOutcomes(TriggerUrls) :
          FetchDone(c, i, outcome)
    \/ \E c \in App, outcome \in ProviderOutcomes(TriggerQueries),
          fail \in -1..MaxRunStatements : TriggerRespond(c, outcome, fail)
    \/ \E c \in Cron, in \in DailyInputs : DailyStart(c, in)
    \/ \E c \in Cron, res \in AllFetchOutcomes(DailyUrls) : DailyPsi(c, res)
    \/ \E c \in Cron, http_ok \in BOOLEAN, outcome \in ProviderOutcomes(DailyQueries) :
          DailyGeo(c, http_ok, outcome)
    \/ \E c \in Cron, fail \in 0..MaxRunStatements : DailySave(c, fail)

SpecTrigger == Init /\ [][NextTrigger]_vars

(***************************************************************************)
(* Properties of the store and of retention.                               *)
(***************************************************************************)
SnapshotIds(db) == {r.id : r \in Range(db.snapshots)}
PsiRowsIn(db, id) == RowsOf(db.psi_results, {r \in Range(db.psi_results) : r.snapshot_id = id})
GeoRowsIn(db, id) == RowsOf(db.geo_results, {r \in Range(db.geo_results) : r.snapshot_id = id})

\* C1: every psi_results and geo_results row refers to a snapshot that still exists
C1_NoOrphanRows ==
    /\ \A r \in Range(store.psi_results) : r.snapshot_id \in SnapshotIds(store)
    /\ \A r \in Range(store.geo_results) : r.snapshot_id \in SnapshotIds(store)

\* every snapshot in the file has as many psi and geo rows as the call that wrote it gave
FullRowSets(db) ==
    \A id \in SnapshotIds(db) :
        /\ id \in DOMAIN written
        /\ Len(PsiRowsIn(db, id)) = Len(written[id].in.psi_rows)
        /\ Len(GeoRowsIn(db, id)) = Len(written[id].in.geo_rows)

\* C2: save_snapshot is atomic: a call that raises, at whichever statement, leaves the
\* file exactly as it was, and every snapshot in the file has its full row set
C2_SaveAtomic ==
    /\ FullRowSets(store)
    /\ (resp.op = "save_snapshot" /\ resp.raised) =>
            /\ \A id \in DOMAIN written : id <= store.sqlite_sequence.snapshots
            /\ store.sqlite_sequence.psi_results = Len(store.psi_results)
            /\ store.sqlite_sequence.geo_results = Len(store.geo_results)

\* C2 as a step property: the step of a save_snapshot that raises changes nothing in the file
C2_FailedSaveChangesNothing ==
    [][(resp'.op = "save_snapshot" /\ resp'.raised) => store' = store]_vars

\* C2 witness: a save raised after the snapshot insert and a row insert, with an
\* earlier snapshot committed
C2_Witness ==
    /\ resp.op = "save_snapshot" /\ resp.raised /\ resp.executed >= 2
    /\ Len(store.snapshots) = 1

\* C8: a dry run (API dry_run=true, script --dry-run) leaves the file unchanged, so
\* list_snapshots returns the same rows before and after
C8_DryRunFrame ==
    [][(resp'.op = "rotate_dry_run" \/ (resp'.op = "script_rotate" /\ resp'.dry_run))
        => /\ store' = store
           /\ ListSnapshotsRows(store', 50, 0) = ListSnapshotsRows(store, 50, 0)]_vars

\* C8 witness: a dry run reported an expired snapshot, which is still in the file
C8_Witness ==
    /\ resp.op = "rotate_dry_run" /\ resp.would_delete_snapshots >= 1
    /\ Len(store.snapshots) >= 1

C10_DeletesExactlyExpired ==
    (resp.op = "rotate_execute" /\ ~resp.raised) =>
        /\ \A r \in Range(store.snapshots) :
                InstantOf(r.created_at) >= InstantOf(resp.cutoff)
        /\ \A id \in resp.removed :
                InstantOf(written[id].now) < InstantOf(resp.cutoff)
        /\ FullRowSets(store)

TriggerReturned == resp.op = "trigger" /\ resp.status = 200

\* C3: a trigger call that returns successfully reports psi_count = len(urls) and
\* geo_count = len(queries), whatever the providers did, and the snapshot it saved holds
\* as many rows
C3_CountsEqualInputs ==
    TriggerReturned =>
        /\ resp.psi_count = Len(resp.req.urls)
        /\ resp.geo_count = Len(resp.req.queries)
        /\ resp.saved =>
            /\ Len(PsiRowsIn(store, resp.snapshot_id)) = Len(resp.req.urls)
            /\ Len(GeoRowsIn(store, resp.snapshot_id)) = Len(resp.req.queries)

\* rows are one per URL, in input order, "error" with null score, lcp and cls exactly for
\* the calls that failed and "ok" for the others
PsiRowsMatch(rows, urls, results) ==
    /\ Len(rows) = Len(urls)
    /\ \A i \in 1..Len(rows) :
        /\ rows[i].url = urls[i]
        /\ results[i].t = "exc" =>
            rows[i].status = "error" /\ rows[i].score = NoScore
                /\ rows[i].lcp = None /\ rows[i].cls = None
        /\ results[i].t # "exc" => rows[i].status = "ok"

\* C4: the PSI rows of a trigger (returned, and saved) and of a daily run are one per URL
\* in input order, row i for urls[i], "error" with null score/lcp/cls exactly when call i
\* failed, "ok" otherwise
C4_PsiOneRowPerUrl ==
    /\ TriggerReturned =>
        /\ PsiRowsMatch(resp.psi_rows, resp.req.urls, resp.results)
        /\ resp.saved =>
            PsiRowsMatch(PsiRowsIn(store, resp.snapshot_id), resp.req.urls, resp.results)
    /\ resp.op = "daily" =>
        /\ PsiRowsMatch(resp.psi_rows, resp.in.urls, resp.results)
        /\ resp.exit = 0 =>
            PsiRowsMatch(PsiRowsIn(store, resp.snapshot_id), resp.in.urls, resp.results)

\* C4 witness: a trigger with three URLs whose second call failed and whose first and
\* third succeeded has returned and saved its rows
C4_Witness ==
    /\ TriggerReturned /\ resp.saved
    /\ Len(resp.req.urls) = 3
    /\ resp.results[1].t = "res" /\ resp.results[2].t = "exc" /\ resp.results[3].t = "res"
    /\ Len(PsiRowsIn(store, resp.snapshot_id)) = 3

\* C5: when the batched call or the handling of its answer fails, the trigger's GEO rows
\* are exactly one "error" row per query carrying the failure text, and no "ok" row
C5_FailureGivesOnlyErrorRows ==
    (TriggerReturned /\ resp.req.queries # <<>> /\ GeoFailed(resp.outcome)) =>
        /\ Len(resp.geo_rows) = Len(resp.req.queries)
        /\ \A i \in 1..Len(resp.geo_rows) :
            /\ resp.geo_rows[i].status = "error"
            /\ resp.geo_rows[i].result.t = "str"
            /\ i <= Len(resp.req.queries) => resp.geo_rows[i].query = resp.req.queries[i]

\* rows are one per query, all "stub"
AllStub(rows, queries) ==
    /\ Len(rows) = Len(queries)
    /\ \A i \in 1..Len(rows) : rows[i].status = "stub" /\ rows[i].query = queries[i]

\* C6: with the answer provider not configured, the trigger, and the daily run whose
\* requests to /geo/check were all answered, record every query as a "stub" row
C6_UnconfiguredGivesStubRows ==
    /\ (TriggerReturned /\ resp.outcome = Unconfigured) =>
            AllStub(resp.geo_rows, resp.req.queries)
    /\ (resp.op = "daily" /\ ~resp.in.configured
            /\ \A i \in 1..Len(resp.http) : resp.http[i]) =>
            AllStub(resp.geo_rows, resp.in.queries)

(***************************************************************************)
(* Further properties of retention and of the store.                       *)
(***************************************************************************)
\* C11: the count an execute pass returns is the number of snapshots that pass removed
\* from the file, whatever ran between its SELECT and its DELETE
C11_CountIsWhatWasRemoved ==
    (resp.op = "rotate_execute" /\ ~resp.raised) =>
        resp.deleted_snapshots = Cardinality(resp.removed)

\* keep_days as the API and the script take it: any int
AnyKeepDays == {-1, 0}

\* writes and retention, with keep_days over AnyKeepDays
NextAnyKeepDays ==
    \/ Tick
    \/ \E c \in App : InitDb(c)
    \/ \E c \in App, in \in {x \in SaveInputs : x.geo_rows = <<>>} : SaveSnapshotCall(c, in)
    \/ \E c \in App, fail \in 0..MaxStatements : SaveSnapshotWrite(c, fail)
    \/ \E c \in App, k \in AnyKeepDays : ApiRotateDryRun(c, k)
    \/ \E c \in App, k \in AnyKeepDays : RotateSelect(c, k)
    \/ \E c \in App : RotateDelete(c)
    \/ \E c \in Cron, k \in AnyKeepDays, dry \in BOOLEAN : ScriptSelect(c, k, dry)
    \/ \E c \in Cron : ScriptDelete(c)

SpecAnyKeepDays == Init /\ [][NextAnyKeepDays]_vars

\* C12: a retention request with a negative keep_days is rejected and deletes nothing
\* (API dry run, API execute, script), and an execute pass with keep_days = 0 removes
\* exactly the snapshots created before the instant of its cutoff
C12_KeepDaysNonNegative ==
    /\ (resp.op = "rotate_dry_run" /\ resp.keep_days < 0) => resp.raised
    /\ (resp.op = "rotate_execute" /\ resp.keep_days < 0) =>
            (resp.raised /\ resp.removed = {})
    /\ (resp.op = "script_rotate" /\ resp.keep_days < 0) =>
            (resp.found = 0 /\ resp.deleted = 0)
    /\ (resp.op = "rotate_execute" /\ ~resp.raised /\ resp.keep_days = 0) =>
            /\ \A r \in Range(store.snapshots) :
                    InstantOf(r.created_at) >= InstantOf(resp.cutoff)
            /\ \A id \in resp.removed :
                    InstantOf(written[id].now) < InstantOf(resp.cutoff)

(***************************************************************************)
(* Further properties of collection.                                       *)
(***************************************************************************)
\* C13: a trigger with save=true whose init_db or save_snapshot raised still returns the
\* counts and the rows it collected, with saved = false and no snapshot id
C13_FailedSaveStillReturnsRows ==
    (resp.op = "trigger" /\ resp.req.save /\ resp.failed_at # 0) =>
        /\ resp.status = 200
        /\ ~resp.saved /\ resp.snapshot_id = 0
        /\ resp.psi_count = Len(resp.req.urls)
        /\ Len(resp.psi_rows) = Len(resp.req.urls)

\* the ids of the snapshots that were committed and are no longer in the file
DeletedIds == DOMAIN written \ SnapshotIds(store)

\* C14: a deleted snapshot id never comes back: it is in no later file, get_snapshot on
\* it answers 404, and every id a save assigns is above every id assigned before
C14_DeletionIsTerminal ==
    [][/\ \A id \in DeletedIds : id \notin SnapshotIds(store')
       /\ \A id \in SnapshotIds(store') \ SnapshotIds(store) :
              \A old \in DOMAIN written : id > old
       /\ (resp'.op = "get_snapshot" /\ resp'.snapshot_id \in DeletedIds)
              => resp'.body.status = 404]_vars

\* C14 witness: snapshot 1 was deleted, snapshot 2 was written after that, and
\* get_snapshot(1) answered 404
C14_Witness ==
    /\ resp.op = "get_snapshot" /\ resp.snapshot_id = 1 /\ resp.body.status = 404
    /\ 1 \in DeletedIds
    /\ SnapshotIds(store) = {2}

(***************************************************************************)
(* Listing.                                                                *)
(***************************************************************************)
Limits == {1, 2}
Offsets == {0, 1, 2}

\* GET /snapshots?limit=&offset=
ListSnapshots(c, limit, offset) ==
    /\ calls[c].pc = "idle"
    /\ store.schema
    /\ resp' = [op |-> "list_snapshots", limit |-> limit, offset |-> offset,
                snapshots |-> ListSnapshotsRows(store, limit, offset)]
    /\ UNCHANGED <<store, clock, calls, lastExec, written>>

\* writes and listings
NextList ==
    \/ Tick
    \/ \E c \in App : InitDb(c)
    \/ \E c \in App, in \in SaveInputs : SaveSnapshotCall(c, in)
    \/ \E c \in App, fail \in 0..MaxStatements : SaveSnapshotWrite(c, fail)
    \/ \E c \in App, limit \in Limits, offset \in Offsets : ListSnapshots(c, limit, offset)

SpecList == Init /\ [][NextList]_vars

\* the stored snapshots created strictly after r
NewerThan(r) ==
    {s \in Range(store.snapshots) : InstantOf(s.created_at) > InstantOf(r.created_at)}

RECURSIVE Pages(_, _)
\* the pages of size limit at offsets from, from + limit, ... one after the other
Pages(limit, from) ==
    IF from >= Len(store.snapshots) THEN <<>>
    ELSE ListSnapshotsRows(store, limit, from) \o Pages(limit, from + limit)

\* C15: list_snapshots returns metadata only, for the slice [offset, offset+limit) of the
\* stored snapshots newest first by creation time, and the consecutive pages hold every
\* snapshot exactly once
C15_ListNewestFirstSlice ==
    resp.op = "list_snapshots" =>
        LET rows == resp.snapshots
            n == Len(store.snapshots)
        IN /\ \A i \in 1..Len(rows) :
                /\ DOMAIN rows[i] = {"id", "created_at", "server", "notes"}
                /\ rows[i] \in Range(store.snapshots)
                /\ Cardinality(NewerThan(rows[i])) <= resp.offset + i - 1
           /\ Len(rows) = Max({0, Min2(resp.limit, n - resp.offset)})
           /\ \A i, j \in 1..Len(rows) : i < j =>
                InstantOf(rows[i].created_at) >= InstantOf(rows[j].created_at)
           /\ LET all == Pages(resp.limit, 0)
              IN /\ Len(all) = n
                 /\ {all[i].id : i \in 1..Len(all)} = SnapshotIds(store)

\* C16: init_db, called at any point, leaves every snapshot and result row (and the id
\* counters) as they were, changes nothing at all when the schema is there, and leaves a
\* file that another init_db would not change
C16_InitDbIdempotent ==
    [][resp'.op = "init_db" =>
        /\ store'.snapshots = store.snapshots
        /\ store'.psi_results = store.psi_results
        /\ store'.geo_results = store.geo_results
        /\ store'.sqlite_sequence = store.sqlite_sequence
        /\ store.schema => store' = store
        /\ InitDbRun(store') = store']_vars

\* C16 witness: init_db has run on a file that holds a snapshot with result rows
C16_Witness ==
    /\ resp.op = "init_db"
    /\ Len(store.snapshots) >= 1 /\ Len(store.psi_results) >= 1

\* C17: the step in which a trigger builds its rows, writes its snapshot and answers is
\* taken only when every task of its gather has finished, with the results of those
\* tasks, and the steps of the trigger before it (a task finishing) write nothing
C17_GatherBarrier ==
    [][\A c \in App :
        calls[c].pc = "gather" =>
            /\ resp'.op = "trigger" =>
                /\ \A i \in 1..Len(calls[c].results) : calls[c].results[i] # Pending
                /\ resp'.status = 200 => resp'.results = calls[c].results
            /\ (calls'[c].pc = "gather" /\ \A d \in Cron : calls'[d] = calls[d])
                    => store' = store]_vars

\* C17 witness: a trigger whose first task raised and whose third returned has answered
\* and saved a row for each of its three URLs
C17_Witness ==
    /\ TriggerReturned /\ resp.saved
    /\ Len(resp.results) = 3
    /\ resp.results[1].t = "exc" /\ resp.results[3].t = "res"
    /\ \A i \in 1..3 : resp.results[i] # Pending
    /\ Len(PsiRowsIn(store, resp.snapshot_id)) = 3

(***************************************************************************)
(* Calls made to the providers by one collection run.                      *)
(***************************************************************************)
\* snapshots_trigger: openai.ChatCompletion.create is called once, when there are
\* queries and the provider is configured
TriggerAnswerCalls(queries, outcome) ==
    IF queries # <<>> /\ outcome # Unconfigured THEN 1 ELSE 0

RECURSIVE DailyAnswerCalls(_, _)
\* daily_snapshot.py: each POST /geo/check that reaches a configured geo_check makes it
\* call openai.ChatCompletion.create once
DailyAnswerCalls(http, configured) ==
    IF http = <<>> THEN 0
    ELSE (IF Head(http) /\ configured THEN 1 ELSE 0) + DailyAnswerCalls(Tail(http), configured)

\* a daily run with two URLs and two queries
FanOutInputs == [urls : {DailyUrls}, queries : {TriggerQueries}, configured : BOOLEAN]

\* the trigger, and the daily run over FanOutInputs
NextFanOut ==
    \/ \E c \in App, req \in TriggerRequests : TriggerCall(c, req)
    \/ \E c \in App, i \in 1..Len(TriggerUrls), outcome \in AllFetchOutcomes(TriggerUrls) :
          FetchDone(c, i, outcome)
    \/ \E c \in App, outcome \in ProviderOutcomes(TriggerQueries),
          fail \in -1..MaxRunStatements : TriggerRespond(c, outcome, fail)
    \/ \E c \in Cron, in \in FanOutInputs : DailyStart(c, in)
    \/ \E c \in Cron, res \in AllFetchOutcomes(DailyUrls) : DailyPsi(c, res)
    \/ \E c \in Cron, http_ok \in BOOLEAN,
          outcome \in UNION {ProviderOutcomes(<<q>>) : q \in Range(TriggerQueries)} :
          DailyGeo(c, http_ok, outcome)
    \/ \E c \in Cron, fail \in 0..MaxRunStatements : DailySave(c, fail)

SpecFanOut == Init /\ [][NextFanOut]_vars

\* C18: a collection run has made one metric-provider call per URL (each with its one
\* outcome, none repeated) and at most one answer-provider call for all its queries
C18_SingleAttemptNoFanOut ==
    /\ TriggerReturned =>
        /\ Len(resp.results) = Len(resp.req.urls)
        /\ TriggerAnswerCalls(resp.req.queries, resp.outcome) <= 1
    /\ resp.op = "daily" =>
        /\ Len(resp.results) = Len(resp.in.urls)
        /\ DailyAnswerCalls(resp.http, resp.in.configured) <= 1

\* C19: the answering step of a trigger with save=false leaves the file as it was and
\* answers with no snapshot id, saved = false and the counts of the rows collected; and
\* whenever a trigger answers, saved is true exactly when it carries the id of a snapshot
\* that is in the file
C19_SaveFalseLeavesStore ==
    [][\A c \in App :
        (calls[c].pc = "gather" /\ resp'.op = "trigger") =>
            /\ ~calls[c].req.save =>
                /\ store' = store
                /\ resp'.status = 200
                /\ resp'.snapshot_id = 0 /\ ~resp'.saved
                /\ resp'.psi_count = Len(calls[c].req.urls)
                /\ resp'.psi_count = Len(resp'.psi_rows)
                /\ resp'.geo_count = Len(resp'.geo_rows)
            /\ resp'.status = 200 =>
                /\ resp'.saved <=> (resp'.snapshot_id # 0
                                      /\ resp'.snapshot_id \in SnapshotIds(store'))
                /\ resp'.saved => (calls[c].req.save
                                     /\ resp'.snapshot_id \notin SnapshotIds(store))]_vars

\* C19 witness: a trigger with save=false has answered with the counts of three PSI rows
\* and of GEO rows, without an id
C19_Witness ==
    /\ TriggerReturned /\ ~resp.req.save
    /\ ~resp.saved /\ resp.snapshot_id = 0
    /\ resp.psi_count = 3 /\ resp.geo_count >= 1
    /\ store.schema /\ store.snapshots = <<>>

\* the row of snapshot id in db
SnapshotRow(db, id) == CHOOSE r \in Range(db.snapshots) : r.id = id

\* C20: no step changes a snapshot that is in the file before and after it: its
\* created_at, server and notes, and its psi and geo rows, each with every field, stay
\* as they are
C20_SnapshotsImmutable ==
    [][\A id \in SnapshotIds(store) \cap SnapshotIds(store') :
        /\ SnapshotRow(store', id) = SnapshotRow(store, id)
        /\ PsiRowsIn(store', id) = PsiRowsIn(store, id)
        /\ GeoRowsIn(store', id) = GeoRowsIn(store, id)]_vars

\* C20 witness: of two snapshots with rows, retention has removed the first and the
\* second is in the file with its rows
C20_Witness ==
    /\ resp.op = "rotate_execute" /\ resp.removed = {1}
    /\ SnapshotIds(store) = {2}
    /\ Len(PsiRowsIn(store, 2)) >= 1
    /\ Len(PsiRowsIn(store, 1)) >= 1


\* C22: the order in which the store compares creation timestamps (the text comparison
\* of the strings utcnow().isoformat() + "Z" gives) agrees with chronological order:
\* for every two stored snapshots, as ORDER BY created_at compares them, and for every
\* stored snapshot against the cutoff of a retention pass started now, as
\* WHERE created_at < cutoff compares them
C22_TextOrderIsChronological ==
    /\ \A a, b \in Range(store.snapshots) :
            TextLess(a.created_at, b.created_at)
                <=> InstantOf(a.created_at) < InstantOf(b.created_at)
    /\ \A a \in Range(store.snapshots), k \in KeepDays :
            TextLess(a.created_at, Cutoff(clock, k))
                <=> InstantOf(a.created_at) < clock - k * TicksPerDay


\* the snapshots of db created before the instant the cutoff text denotes
CreatedBefore(db, cutoff) ==
    {r \in Range(db.snapshots) : InstantOf(r.created_at) < InstantOf(cutoff)}

\* C21: for the same store contents, clock and keep_days, the would_delete_snapshots
\* of a dry run equals the deleted_snapshots of the execute run that follows it, both
\* equal the number of snapshots created before the cutoff, and the standalone script
\* selects the same set of snapshots as rotate_old_snapshots
C21_DryRunAgreesWithExecute ==
    [][/\ (/\ resp.op = "rotate_dry_run" /\ ~resp.raised
           /\ resp'.op = "rotate_execute" /\ ~resp'.raised
           /\ resp'.keep_days = resp.keep_days /\ resp'.cutoff = resp.cutoff)
            => /\ resp'.deleted_snapshots = resp.would_delete_snapshots
               /\ resp'.deleted_snapshots = Cardinality(CreatedBefore(store, resp.cutoff))
       /\ (resp'.op = "rotate_dry_run" /\ ~resp'.raised)
            => resp'.would_delete_snapshots
                   = Cardinality(CreatedBefore(store', resp'.cutoff))
       /\ \A c \in Cron :
            (calls[c].pc = "idle" /\ calls'[c].pc = "script")
                => Range(calls'[c].ids)
                       = Range(SelectOlderIds(GetConn(store), calls'[c].cutoff))
       /\ (resp'.op = "script_rotate" /\ (resp'.dry_run \/ resp'.found = 0))
            => resp'.found = Len(SelectOlderIds(GetConn(store'), resp'.cutoff))]_vars

====
